---- MODULE Spec2Model ----
(***************************************************************************)
(* Model of crossmist's asynchronous layer: the length-prefixed frames of  *)
(* Sender::send / Receiver::recv, the Child / KillHandle life cycle        *)
(* (join, kill, the may_kill mutex) and the spawn handshake.               *)
(***************************************************************************)
EXTENDS Integers, Sequences, FiniteSets, TLC

VARIABLES
    platform,     \* "unix" | "windows": which #[cfg] branch is compiled
    tKind,        \* the return type T: "unit" | "pod" | "obj"
    retVal,       \* payload bytes of the value the child function returns
    proc,         \* the child process: "running" | "exited" | "reaped"
    status,       \* its termination status, "none" while it runs
    handleOpen,   \* Child.proc_handle is still owned (Windows: HANDLE not closed)
    out,          \* bytes written by the child on output_rx's stream, unread
    cw,           \* number of bytes of the return frame the child has written
    mayKill,      \* *may_kill
    lock,         \* holder of the may_kill mutex: "free" | "join" | "kill"
    jpc,          \* Child::join: "idle" | "recv" | "lock" | "wait" | "done"
    jrecv,        \* how join's recv ended: "pending" | "some" | "none" | "eof" | "io"
    jval,         \* join's local `value`: Option<T>
    jres,         \* what join returned
    kpc,          \* KillHandle::kill per thread: "idle" | "held" | "sig"
    kcalls,       \* number of kill() calls started so far
    klog,         \* history: one record per finished kill() call
    \* ---- spawn ----
    splat,        \* platform of the spawning process
    hs,           \* serialized entry closure: payload of the handshake frame
    hlist,        \* `handles`: s.drain_handles(), the handles to inherit
    cloexec0,     \* cloexec flag of each parent handle before spawn was called
    cloexec,      \* cloexec flag of each parent handle now
    spc,          \* position inside spawn / _spawn_child
    idx,          \* loop index over inherited_handles / enabled_handles
    enabled,      \* enabled_handles of _spawn_child (Windows)
    cpRes,        \* result of CreateProcessW / clone: "none" | "ok" | "fail"
    procCreated,  \* a child process exists
    childFds,     \* cloexec flags in the fd table the cloned child has (unix)
    sent,         \* every byte written on `local` so far
    sres,         \* what spawn returned: "pending" | "ok" | an error
    cfd,          \* child_fd.as_raw_fd(): the number of the child's end (unix)
    fpc,          \* the cloned child: "none" | a stage of fork_child_main |
                  \*   "execd" | "aborted" | "returned" | "panicked"
    fsig,         \* fork_child_main: the loop variable i
    fidx,         \* fork_child_main: position in child_fd, inherited_fds
    flog,         \* history: the calls the cloned child has made, in order
    fargv,        \* argv handed to execv, <<>> before
    cproc,        \* the created process: "none" | "running" | "dead"
    cread,        \* bytes of `sent` the child has read
    swr,          \* bytes of the pending write of local.send already written
    childEnd,     \* the spawning process holds `child`, the child's end(s)
    localEnd,     \* the spawning process holds `local`
    \* ---- one Sender / Receiver pair (the #[cfg(windows)] framing) ----
    cKind,        \* the type T of the channel: "unit" | "pod" | "obj"
    wire,         \* bytes in the stream, written and not yet read
    txOpen,       \* the Sender (its stream) has not been dropped
    txPc,         \* Sender::send: "idle" | "len" | "body"
    txLeft,       \* bytes the current write has still to put on the stream
    txVal,        \* the value being sent
    begun,        \* history: the values whose send was started, in order
    sentOk,       \* history: the values whose send returned Ok, in order
    rxOut,        \* history: the results of the recv calls, in order
    \* ---- Duplex::request on our end; the channel above carries the answer ----
    qpc,          \* request: "idle" | "send_len" | "send_body" | "recv" | "done"
    qval,         \* the value passed to request
    qsent,        \* bytes request's send has written towards the peer
    qsend,        \* how request's send ended: "pending" | "ok" | "err"
    qres,         \* what request returned
    peerRx,       \* the peer still holds the receiving end of our sender
    \* ---- RelocatablePtr ----
    anchorS,      \* address of BASE_ADDRESS in the serializing process
    anchorR,      \* address of BASE_ADDRESS in another process of the same image
    ptr,          \* self.0 as usize, the pointer being serialized
    offBytes,     \* the serialized offset, <<>> before serialization
    outIn,        \* where it was deserialized: "none" | "same" | "peer"
    outPtr,       \* the deserialized pointer
    \* ---- the two sides returned by duplex() ----
    dplat,        \* platform of the duplex
    dwire,        \* bytes in each of the two streams, written and not yet read
    dsent,        \* history: the values each side has sent, in order
    drecv         \* history: the values each side's recv has returned, in order

childVars == <<platform, tKind, retVal, proc, status, handleOpen, out, cw,
               mayKill, lock, jpc, jrecv, jval, jres, kpc, kcalls, klog>>

forkVars == <<fpc, fsig, fidx, flog, fargv>>

pipeVars == <<cproc, cread, swr>>

endVars == <<childEnd, localEnd>>

spawnVars == <<splat, hs, hlist, cloexec0, cloexec, spc, idx, enabled, cpRes,
               procCreated, childFds, sent, sres, cfd, forkVars, pipeVars,
               endVars>>

chanVars == <<cKind, wire, txOpen, txPc, txLeft, txVal, begun, sentOk,
              rxOut>>

reqVars == <<qpc, qval, qsent, qsend, qres, peerRx>>

ptrVars == <<anchorS, anchorR, ptr, offBytes, outIn, outPtr>>

dupVars == <<dplat, dwire, dsent, drecv>>

vars == <<childVars, spawnVars, chanVars, reqVars, ptrVars, dupVars>>

notChild == <<spawnVars, chanVars, reqVars, ptrVars, dupVars>>
notSpawn == <<childVars, chanVars, reqVars, ptrVars, dupVars>>
notChan == <<childVars, spawnVars, reqVars, ptrVars, dupVars>>
notReq == <<childVars, spawnVars, ptrVars, dupVars>>
notPtr == <<childVars, spawnVars, chanVars, reqVars, dupVars>>
notDup == <<childVars, spawnVars, chanVars, reqVars, ptrVars>>

----------------------------------------------------------------------------
(* Bounds of the model *)

WordSize == 2        \* bytes of a usize length prefix (scaled down)
PodSize == 1         \* size_of::<T>() of the plain-old-data T
MaxLen == 1          \* longest serialized non-POD payload
NumKillers == 2      \* threads holding a KillHandle
MaxKillCalls == 2    \* kill() calls made in one run
MaxHandles == 2      \* longest handle list drained from the serializer
MaxSends == 2        \* send() calls on one Sender
MaxRecvs == 3        \* recv() calls on one Receiver
AddrSpan == 3        \* addresses taken at each end of the address space
MaxFd == 12          \* largest fd number tried for the child's end
BufCap == 2          \* bytes the stream between `local` and the child buffers

NSig == 32           \* fork_child_main: for i in 1..32
SigKill == 9         \* nix::libc::SIGKILL
SigStop == 19        \* nix::libc::SIGSTOP

Killers == 1..NumKillers
Platforms == {"unix", "windows"}
Kinds == {"unit", "pod", "obj"}
ByteVals == {7, 8}

----------------------------------------------------------------------------
(* Frames: [ len: native-endian usize ][ bytes ] *)

RECURSIVE Pow(_, _)
Pow(b, e) == IF e = 0 THEN 1 ELSE b * Pow(b, e - 1)

\* a length prefix that is always zero
ToNeBytesZero(n) == [i \in 1..WordSize |-> 0]

\* usize::to_ne_bytes on a little-endian target
ToNeBytes(n) == [i \in 1..WordSize |-> (n \div Pow(256, i - 1)) % 256]

RECURSIVE FromNeBytes(_)
\* usize::from_ne_bytes
FromNeBytes(b) == IF b = <<>> THEN 0 ELSE Head(b) + 256 * FromNeBytes(Tail(b))

\* implements!(T: PlainOldData)
IsPod(kind) == kind \in {"unit", "pod"}

\* std::mem::size_of::<T>() of a plain-old-data T
SizeOf(kind) == IF kind = "unit" THEN 0 ELSE PodSize

\* the values of T, as their payload bytes
ValuesOf(kind) ==
    IF IsPod(kind)
    THEN [1..SizeOf(kind) -> ByteVals]
    ELSE UNION {[1..n -> ByteVals] : n \in 0..MaxLen}

\* what Sender::send puts on the stream for one value
Frame(v) == ToNeBytes(Len(v)) \o v

Blocked == [r |-> "block", v |-> <<>>, used |-> 0]

\* Receiver::recv, #[cfg(windows)]: the result on a stream holding `s`,
\* `eof` when every writing end is closed ("block": the read is pending)
WinRecv(kind, s, eof) ==
    IF Len(s) < WordSize
    THEN IF eof THEN [r |-> "none", v |-> <<>>, used |-> Len(s)] ELSE Blocked
    ELSE LET len == FromNeBytes(SubSeq(s, 1, WordSize))
             need == IF IsPod(kind) THEN SizeOf(kind) ELSE len
         IN  IF Len(s) - WordSize >= need
             THEN [r |-> "some", v |-> SubSeq(s, WordSize + 1, WordSize + need),
                   used |-> WordSize + need]
             ELSE IF eof THEN [r |-> "err", v |-> <<>>, used |-> Len(s)]
                  ELSE Blocked

\* Receiver::recv, #[cfg(unix)]: SingleObjectReceiver::recv_next
UnixRecv(kind, s, eof) ==
    IF Len(s) >= WordSize
       /\ Len(s) - WordSize >= FromNeBytes(SubSeq(s, 1, WordSize))
    THEN LET len == FromNeBytes(SubSeq(s, 1, WordSize))
         IN  [r |-> "some", v |-> SubSeq(s, WordSize + 1, WordSize + len),
              used |-> WordSize + len]
    ELSE IF ~eof THEN Blocked
         ELSE IF s = <<>> THEN [r |-> "none", v |-> <<>>, used |-> 0]
              ELSE [r |-> "err", v |-> <<>>, used |-> Len(s)]

Recv(plat, kind, s, eof) ==
    IF plat = "windows" THEN WinRecv(kind, s, eof) ELSE UnixRecv(kind, s, eof)

----------------------------------------------------------------------------
(* Child<T> and KillHandle *)

None == [some |-> FALSE, v |-> <<>>]
Some(v) == [some |-> TRUE, v |-> v]

Pending == [k |-> "pending", v |-> <<>>, err |-> "", st |-> "none"]
JoinOk(v) == [k |-> "ok", v |-> v, err |-> "", st |-> "none"]
JoinErr(e, st) == [k |-> "err", v |-> <<>>, err |-> e, st |-> st]

\* if_void answering None for every T
IfVoidNever(kind) == None

\* if_void answering Some for every T
IfVoidAlways(kind) == Some(<<>>)

\* imp::if_void::<T>()
IfVoid(kind) == IF kind = "unit" THEN Some(<<>>) ELSE None

\* a wait status test that accepts every status
ExitedZeroAlways(st) == TRUE

\* the test of the wait status in join
ExitedZero(st) == st = "exit0"

\* a join that looks at the received value before the status
JoinOutcomeValueFirst(value, st) ==
    IF value.some THEN JoinOk(value.v)
    ELSE IF ExitedZero(st) THEN JoinErr("noval", "none")
    ELSE JoinErr("status", st)

\* join's result once the process has been waited on
JoinOutcome(value, st) ==
    IF ExitedZero(st)
    THEN IF value.some THEN JoinOk(value.v) ELSE JoinErr("noval", "none")
    ELSE JoinErr("status", st)

\* a Child created with the flag already cleared
InitialFlagCleared == FALSE

\* Child::new: may_kill: Arc::new(Mutex::new(true))
InitialFlag == TRUE

\* Child::new
InitChild ==
    /\ platform \in Platforms
    /\ tKind \in Kinds
    /\ retVal \in ValuesOf(tKind)
    /\ proc = "running"
    /\ status = "none"
    /\ handleOpen = TRUE
    /\ out = <<>>
    /\ cw = 0
    /\ mayKill = InitialFlag
    /\ lock = "free"
    /\ jpc = "idle"
    /\ jrecv = "pending"
    /\ jval = None
    /\ jres = Pending
    /\ kpc = [k \in Killers |-> "idle"]
    /\ kcalls = 0
    /\ klog = {}

\* the child process writes the next byte of its return frame
ChildWrite ==
    /\ proc = "running"
    /\ cw < Len(Frame(retVal))
    /\ out' = Append(out, Frame(retVal)[cw + 1])
    /\ cw' = cw + 1
    /\ UNCHANGED <<platform, tKind, retVal, proc, status, handleOpen, mayKill,
                   lock, jpc, jrecv, jval, jres, kpc, kcalls, klog>>
    /\ UNCHANGED notChild

\* the child process terminates by itself (return, exit, abort)
ChildExit ==
    /\ proc = "running"
    /\ \E st \in {"exit0", "exit7"} : status' = st
    /\ proc' = "exited"
    /\ UNCHANGED <<platform, tKind, retVal, handleOpen, out, cw, mayKill,
                   lock, jpc, jrecv, jval, jres, kpc, kcalls, klog>>
    /\ UNCHANGED notChild

\* the owner of the Child calls join(self)
JoinCall ==
    /\ jpc = "idle"
    /\ jpc' = "recv"
    /\ UNCHANGED <<platform, tKind, retVal, proc, status, handleOpen, out, cw,
                   mayKill, lock, jrecv, jval, jres, kpc, kcalls, klog>>
    /\ UNCHANGED notChild

\* join: self.output_rx.recv().await? and the if_void override
JoinRecv ==
    /\ jpc = "recv"
    /\ LET res == Recv(platform, tKind, out, proc # "running")
       IN  /\ res.r # "block"
           /\ out' = SubSeq(out, res.used + 1, Len(out))
           /\ jrecv' = IF res.r = "err" THEN "eof" ELSE res.r
           /\ IF res.r = "err"
              THEN /\ jres' = JoinErr("recv_eof", "none")
                   /\ jpc' = "done"
                   /\ handleOpen' = FALSE
                   /\ jval' = jval
              ELSE /\ jval' = IF IfVoid(tKind).some THEN IfVoid(tKind)
                              ELSE IF res.r = "some" THEN Some(res.v) ELSE None
                   /\ jpc' = "lock"
                   /\ UNCHANGED <<jres, handleOpen>>
    /\ UNCHANGED <<platform, tKind, retVal, proc, status, cw, mayKill, lock,
                   kpc, kcalls, klog>>
    /\ UNCHANGED notChild

\* join: the read of recv fails with an OS error other than end of file
JoinRecvIoError ==
    /\ jpc = "recv"
    /\ jrecv' = "io"
    /\ jres' = JoinErr("recv_io", "none")
    /\ jpc' = "done"
    /\ handleOpen' = FALSE
    /\ UNCHANGED <<platform, tKind, retVal, proc, status, out, cw, mayKill,
                   lock, jval, kpc, kcalls, klog>>
    /\ UNCHANGED notChild

\* a join that leaves the flag set
JoinedFlagKept == TRUE

\* join: the value written through the guard, *guard = false
JoinedFlag == FALSE

\* a join that drops the guard as soon as it has written the flag
JoinGuardDropped == "free"

\* join: the holder of the mutex while `guard` is alive, that is until join
\* returns
JoinGuard == "join"

\* join: let mut guard = self.may_kill.lock(); *guard = false;
JoinLock ==
    /\ jpc = "lock"
    /\ lock = "free"
    /\ lock' = JoinGuard
    /\ mayKill' = JoinedFlag
    /\ jpc' = "wait"
    /\ UNCHANGED <<platform, tKind, retVal, proc, status, handleOpen, out, cw,
                   jrecv, jval, jres, kpc, kcalls, klog>>
    /\ UNCHANGED notChild

\* join: waitpid / WaitForSingleObject + GetExitCodeProcess, then return
\* (the guard and the Child are dropped)
JoinWait ==
    /\ jpc = "wait"
    /\ proc = "exited"
    /\ proc' = "reaped"
    /\ jres' = JoinOutcome(jval, status)
    /\ jpc' = "done"
    /\ lock' = "free"
    /\ handleOpen' = FALSE
    /\ UNCHANGED <<platform, tKind, retVal, status, out, cw, mayKill, jrecv,
                   jval, kpc, kcalls, klog>>
    /\ UNCHANGED notChild

\* kill: let guard = self.may_kill.lock()
KillLock(k) ==
    /\ kpc[k] = "idle"
    /\ kcalls < MaxKillCalls
    /\ lock = "free"
    /\ lock' = "kill"
    /\ kpc' = [kpc EXCEPT ![k] = "held"]
    /\ kcalls' = kcalls + 1
    /\ UNCHANGED <<platform, tKind, retVal, proc, status, handleOpen, out, cw,
                   mayKill, jpc, jrecv, jval, jres, klog>>
    /\ UNCHANGED notChild

\* a kill that never looks at the flag
KillRefusedNever(flag) == FALSE

\* a kill that is refused whatever the flag says
KillRefusedAlways(flag) == TRUE

\* kill: if !*guard
KillRefused(flag) == ~flag

KillEntry(sig, res) ==
    [flag |-> mayKill, proc |-> proc, open |-> handleOpen, cw |-> cw,
     jpc |-> jpc, sig |-> sig, res |-> res]

\* kill: the test of the flag; refused with "This process has already been joined"
KillCheck(k) ==
    /\ kpc[k] = "held"
    /\ IF KillRefused(mayKill)
       THEN /\ klog' = klog \cup {KillEntry(FALSE, "joined")}
            /\ kpc' = [kpc EXCEPT ![k] = "idle"]
            /\ lock' = "free"
       ELSE /\ kpc' = [kpc EXCEPT ![k] = "sig"]
            /\ UNCHANGED <<klog, lock>>
    /\ UNCHANGED <<platform, tKind, retVal, proc, status, handleOpen, out, cw,
                   mayKill, jpc, jrecv, jval, jres, kcalls>>
    /\ UNCHANGED notChild

\* what kill(pid, SIGKILL) / TerminateProcess(handle, 1) answers
SignalResult(plat, p, open) ==
    IF plat = "unix"
    THEN IF p = "reaped" THEN "os" ELSE "ok"
    ELSE IF open /\ p = "running" THEN "ok" ELSE "os"

\* kill: kill_process(pid, Signal::Kill) / TerminateProcess(proc_id, 1), Ok(())
KillSignal(k) ==
    /\ kpc[k] = "sig"
    /\ klog' = klog \cup {KillEntry(TRUE, SignalResult(platform, proc, handleOpen))}
    /\ IF proc = "running" /\ SignalResult(platform, proc, handleOpen) = "ok"
       THEN /\ proc' = "exited"
            /\ status' = IF platform = "unix" THEN "sig9" ELSE "exit1"
       ELSE UNCHANGED <<proc, status>>
    /\ kpc' = [kpc EXCEPT ![k] = "idle"]
    /\ lock' = "free"
    /\ UNCHANGED <<platform, tKind, retVal, handleOpen, out, cw, mayKill, jpc,
                   jrecv, jval, jres, kcalls>>
    /\ UNCHANGED notChild

ChildNext ==
    \/ ChildWrite
    \/ ChildExit
    \/ JoinCall
    \/ JoinRecv
    \/ JoinRecvIoError
    \/ JoinLock
    \/ JoinWait
    \/ \E k \in Killers : KillLock(k)
    \/ \E k \in Killers : KillCheck(k)
    \/ \E k \in Killers : KillSignal(k)

----------------------------------------------------------------------------
(* spawn and _spawn_child *)

UserHandles == {"h1", "h2"}
ChanHandles == {"child_tx", "child_rx", "child_fd"}
Handles == UserHandles \cup ChanHandles

\* the handle lists the serializer can hand over
HandleLists == UNION {[1..n -> UserHandles] : n \in 0..MaxHandles}

\* the raw fd numbers tried for the child's end of the duplex
ChildFdNums == {3, MaxFd}

\* inherited_handles of _spawn_child: the drained handles, then the child's
\* ends of the duplex
InheritedHandles(plat, list) ==
    IF plat = "windows" THEN list \o <<"child_tx", "child_rx">>
    ELSE list \o <<"child_fd">>

\* a spawn that writes the handshake before it creates the process
SpawnStepsSendFirst(plat) ==
    IF plat = "windows"
    THEN <<"duplex", "send_len", "send_body", "prepare", "disable", "create",
           "restore", "check", "done">>
    ELSE <<"duplex", "send_len", "send_body", "clone", "done">>

\* a _spawn_child that looks at the result of CreateProcessW before it
\* restores the handles
SpawnStepsCheckFirst(plat) ==
    IF plat = "windows"
    THEN <<"duplex", "prepare", "disable", "create", "check", "restore",
           "send_len", "send_body", "done">>
    ELSE <<"duplex", "clone", "send_len", "send_body", "done">>

\* the steps of spawn in program order, for each platform
SpawnSteps(plat) ==
    IF plat = "windows"
    THEN <<"duplex", "prepare", "disable", "create", "restore", "check",
           "send_len", "send_body", "done">>
    ELSE <<"duplex", "clone", "send_len", "send_body", "done">>

\* the step that follows `pc` when `pc` succeeded
SpawnAfter(plat, pc) ==
    LET steps == SpawnSteps(plat)
        i == CHOOSE j \in 1..Len(steps) : steps[j] = pc
    IN  steps[i + 1]

InitSpawn ==
    /\ splat \in Platforms
    /\ hs \in ValuesOf("obj")
    /\ hlist \in HandleLists
    /\ cloexec0 \in [Handles -> BOOLEAN]
    /\ \A h \in ChanHandles : cloexec0[h]
    /\ cloexec = cloexec0
    /\ spc = "duplex"
    /\ idx = 1
    /\ enabled = <<>>
    /\ cpRes = "none"
    /\ procCreated = FALSE
    /\ childFds = cloexec0
    /\ sent = <<>>
    /\ sres = "pending"
    /\ cfd \in ChildFdNums
    /\ fpc = "none"
    /\ fsig = 1
    /\ fidx = 1
    /\ flog = <<>>
    /\ fargv = <<>>
    /\ cproc = "none"
    /\ cread = 0
    /\ swr = 0
    /\ childEnd = FALSE
    /\ localEnd = FALSE

\* an error return of spawn that keeps `local` alive
SpawnFailLeaksLocal(e) ==
    /\ sres' = e
    /\ spc' = "done"
    /\ childEnd' = FALSE
    /\ localEnd' = localEnd

\* spawn returns Err(e): `?` drops every local of spawn, `local` and `child`
\* among them
SpawnFail(e) ==
    /\ sres' = e
    /\ spc' = "done"
    /\ childEnd' = FALSE
    /\ localEnd' = FALSE

\* the step `pc` succeeded: spawn goes on with the next one
SpawnGo(pc) ==
    /\ spc' = SpawnAfter(splat, pc)
    /\ sres' = sres
    /\ UNCHANGED endVars

\* spawn: crate::duplex()? and local.try_into()?
SpawnDuplex ==
    /\ spc = "duplex"
    /\ \/ /\ spc' = SpawnAfter(splat, "duplex")
          /\ sres' = sres
          /\ childEnd' = TRUE
          /\ localEnd' = TRUE
       \/ SpawnFail("err_duplex")
    /\ UNCHANGED <<splat, hs, hlist, cloexec0, cloexec, idx, enabled, cpRes,
                   procCreated, childFds, sent, cfd>>
    /\ UNCHANGED <<forkVars, pipeVars>>
    /\ UNCHANGED notSpawn

\* _spawn_child (windows): GetModuleFileNameW, the command line and the
\* attribute list with PROC_THREAD_ATTRIBUTE_HANDLE_LIST
WinPrepare ==
    /\ spc = "prepare"
    /\ \/ SpawnGo("prepare")
       \/ SpawnFail("err_prepare")
    /\ idx' = 1
    /\ UNCHANGED <<splat, hs, hlist, cloexec0, cloexec, enabled, cpRes,
                   procCreated, childFds, sent, cfd>>
    /\ UNCHANGED <<forkVars, pipeVars>>
    /\ UNCHANGED notSpawn

\* a test that takes every handle for a non-inheritable one
IsCloexecAlways(flags, h) == TRUE

\* handles::is_cloexec(handle) when it answers Ok
IsCloexec(flags, h) == flags[h]

\* _spawn_child (windows): one turn of
\*   for &handle in &inherited_handles { if is_cloexec(handle)? { push; disable_cloexec(handle)?; } }
WinDisable ==
    /\ spc = "disable"
    /\ LET list == InheritedHandles(splat, hlist)
       IN  IF idx > Len(list)
           THEN /\ SpawnGo("disable")
                /\ UNCHANGED <<idx, enabled, cloexec>>
           ELSE LET h == list[idx]
                IN  \/ /\ SpawnFail("err_is_cloexec")
                       /\ UNCHANGED <<idx, enabled, cloexec>>
                    \/ /\ IsCloexec(cloexec, h)
                       /\ enabled' = Append(enabled, h)
                       /\ \/ /\ cloexec' = [cloexec EXCEPT ![h] = FALSE]
                             /\ idx' = idx + 1
                             /\ UNCHANGED <<spc, sres, endVars>>
                          \/ /\ SpawnFail("err_disable_cloexec")
                             /\ UNCHANGED <<idx, cloexec>>
                    \/ /\ ~IsCloexec(cloexec, h)
                       /\ idx' = idx + 1
                       /\ UNCHANGED <<enabled, cloexec, spc, sres, endVars>>
    /\ UNCHANGED <<splat, hs, hlist, cloexec0, cpRes, procCreated, childFds,
                   sent, cfd>>
    /\ UNCHANGED <<forkVars, pipeVars>>
    /\ UNCHANGED notSpawn

\* _spawn_child (windows): let res = CreateProcessW(...)
WinCreateProcess ==
    /\ spc = "create"
    /\ \E r \in {"ok", "fail"} :
          /\ cpRes' = r
          /\ procCreated' = (r = "ok")
          /\ cproc' = IF r = "ok" THEN "running" ELSE cproc
    /\ spc' = SpawnAfter(splat, "create")
    /\ idx' = 1
    /\ UNCHANGED <<splat, hs, hlist, cloexec0, cloexec, enabled, childFds, sent,
                   sres, cfd, cread, swr>>
    /\ UNCHANGED <<forkVars, endVars>>
    /\ UNCHANGED notSpawn

\* _spawn_child (windows): one turn of
\*   for handle in enabled_handles { enable_cloexec(handle)?; }
WinRestore ==
    /\ spc = "restore"
    /\ IF idx > Len(enabled)
       THEN /\ SpawnGo("restore")
            /\ UNCHANGED <<idx, cloexec>>
       ELSE \/ /\ cloexec' = [cloexec EXCEPT ![enabled[idx]] = TRUE]
               /\ idx' = idx + 1
               /\ UNCHANGED <<spc, sres, endVars>>
            \/ /\ SpawnFail("err_enable_cloexec")
               /\ UNCHANGED <<idx, cloexec>>
    /\ UNCHANGED <<splat, hs, hlist, cloexec0, enabled, cpRes, procCreated,
                   childFds, sent, cfd>>
    /\ UNCHANGED <<forkVars, pipeVars>>
    /\ UNCHANGED notSpawn

\* _spawn_child (windows): res.ok()?; CloseHandle(hThread); Ok(hProcess)
WinCheck ==
    /\ spc = "check"
    /\ IF cpRes = "ok"
       THEN SpawnGo("check")
       ELSE SpawnFail("err_create_process")
    /\ UNCHANGED <<splat, hs, hlist, cloexec0, cloexec, idx, enabled, cpRes,
                   procCreated, childFds, sent, cfd>>
    /\ UNCHANGED <<forkVars, pipeVars>>
    /\ UNCHANGED notSpawn

\* fork_child_main in the cloned child: disable_cloexec on the fds of `list`,
\* in the child's own fd table
ChildFdsAfter(flags, list) ==
    [h \in Handles |->
        IF \E i \in 1..Len(list) : list[i] = h THEN FALSE ELSE flags[h]]

Digits == <<"0", "1", "2", "3", "4", "5", "6", "7", "8", "9">>

RECURSIVE ToDecimalString(_)
\* i32::to_string: the decimal digits of a non-negative number
ToDecimalString(n) ==
    IF n < 10 THEN <<Digits[n + 1]>>
    ELSE ToDecimalString(n \div 10) \o <<Digits[(n % 10) + 1]>>

\* one call made by the cloned child
Call(op, sig, fd) == [op |-> op, sig |-> sig, fd |-> fd]

\* a callback that hands the error back to clone
SpawnCbReturns(result) == "returned"

\* spawn_cb: match fork_child_main(..) { Ok(()) => unreachable!(),
\*                                       Err(e) => { eprintln!("{e}"); abort() } }
SpawnCb(result) == IF result = "ok" THEN "panicked" ELSE "aborted"

\* a fork_child_main that clears the signal mask after the cloexec flags
ForkStepsMaskLast == <<"sigaction", "cloexec", "sigprocmask", "execv">>

\* the stages of fork_child_main in program order
ForkSteps == <<"sigaction", "sigprocmask", "cloexec", "execv">>

\* the stage that follows `pc`
ForkAfter(pc) ==
    LET i == CHOOSE j \in 1..Len(ForkSteps) : ForkSteps[j] = pc
    IN  ForkSteps[i + 1]

\* fork_child_main returns Err through `?` or after execv: spawn_cb runs
ForkFail ==
    /\ fpc' = SpawnCb("err")
    /\ cproc' = IF SpawnCb("err") = "aborted" THEN "dead" ELSE cproc

\* _spawn_child (unix): sched::clone(spawn_cb, CLONE_VM | CLONE_VFORK, SIGCHLD);
\* the parent is suspended until the child has called execv or is gone
UnixClone ==
    /\ spc = "clone"
    /\ fpc = "none"
    /\ \/ /\ cpRes' = "ok"
          /\ procCreated' = TRUE
          /\ cproc' = "running"
          /\ childFds' = cloexec
          /\ fpc' = ForkSteps[1]
          /\ UNCHANGED <<spc, sres, endVars>>
       \/ /\ cpRes' = "fail"
          /\ SpawnFail("err_clone")
          /\ UNCHANGED <<procCreated, childFds, cproc, fpc>>
    /\ UNCHANGED <<splat, hs, hlist, cloexec0, cloexec, idx, enabled, sent, cfd,
                   fsig, fidx, flog, fargv, cread, swr>>
    /\ UNCHANGED notSpawn

\* fork_child_main: one turn of `for i in 1..32`, sigaction(i, SIG_DFL)?
\* unless i is SIGKILL or SIGSTOP
ForkSigaction ==
    /\ fpc = "sigaction"
    /\ IF fsig >= NSig
       THEN /\ fpc' = ForkAfter("sigaction")
            /\ UNCHANGED <<fsig, flog, cproc>>
       ELSE IF fsig \in {SigKill, SigStop}
            THEN /\ fsig' = fsig + 1
                 /\ UNCHANGED <<fpc, flog, cproc>>
            ELSE \/ /\ flog' = Append(flog, Call("sigaction", fsig, ""))
                    /\ fsig' = fsig + 1
                    /\ UNCHANGED <<fpc, cproc>>
                 \/ /\ ForkFail
                    /\ UNCHANGED <<fsig, flog>>
    /\ UNCHANGED <<splat, hs, hlist, cloexec0, cloexec, spc, idx, enabled, cpRes,
                   procCreated, childFds, sent, sres, cfd, fidx, fargv, cread, swr>>
    /\ UNCHANGED endVars
    /\ UNCHANGED notSpawn

\* fork_child_main: sigprocmask(SIG_SETMASK, empty)?
ForkSigprocmask ==
    /\ fpc = "sigprocmask"
    /\ \/ /\ flog' = Append(flog, Call("sigprocmask", 0, ""))
          /\ fpc' = ForkAfter("sigprocmask")
          /\ UNCHANGED cproc
       \/ /\ ForkFail
          /\ UNCHANGED flog
    /\ UNCHANGED <<splat, hs, hlist, cloexec0, cloexec, spc, idx, enabled, cpRes,
                   procCreated, childFds, sent, sres, cfd, fsig, fidx, fargv,
                   cread, swr>>
    /\ UNCHANGED endVars
    /\ UNCHANGED notSpawn

\* fork_child_main: disable_cloexec(child_fd)?, then one turn of
\*   for fd in inherited_fds { disable_cloexec(*fd)?; }
ForkDisableCloexec ==
    /\ fpc = "cloexec"
    /\ LET list == <<"child_fd">> \o hlist
       IN  IF fidx > Len(list)
           THEN /\ fpc' = ForkAfter("cloexec")
                /\ UNCHANGED <<fidx, flog, childFds, cproc>>
           ELSE \/ /\ flog' = Append(flog, Call("disable_cloexec", 0, list[fidx]))
                   /\ childFds' = ChildFdsAfter(childFds, <<list[fidx]>>)
                   /\ fidx' = fidx + 1
                   /\ UNCHANGED <<fpc, cproc>>
                \/ /\ ForkFail
                   /\ UNCHANGED <<fidx, flog, childFds>>
    /\ UNCHANGED <<splat, hs, hlist, cloexec0, cloexec, spc, idx, enabled, cpRes,
                   procCreated, sent, sres, cfd, fsig, fargv, cread, swr>>
    /\ UNCHANGED endVars
    /\ UNCHANGED notSpawn

\* fork_child_main: execv("/proc/self/exe", ["_crossmist_", child_fd_str, NULL]);
\* it returns only when it failed, and then Err(last_os_error()) is returned
ForkExecv ==
    /\ fpc = "execv"
    /\ flog' = Append(flog, Call("execv", 0, ""))
    /\ fargv' = <<<<"_crossmist_">>, ToDecimalString(cfd)>>
    /\ \/ /\ fpc' = "execd"
          /\ UNCHANGED cproc
       \/ ForkFail
    /\ UNCHANGED <<splat, hs, hlist, cloexec0, cloexec, spc, idx, enabled, cpRes,
                   procCreated, childFds, sent, sres, cfd, fsig, fidx, cread, swr>>
    /\ UNCHANGED endVars
    /\ UNCHANGED notSpawn

\* the parent holds the child's end of the duplex once _spawn_child returned
ChildEndLeaked == TRUE

\* the parent's hold on the child's end of the duplex after `child` was
\* dropped: at the return of _spawn_child (unix), at the return of spawn
\* (windows)
ChildEndDropped == FALSE

\* _spawn_child (unix): clone returns the pid in the parent, Ok(pid), and
\* `child_fd` is dropped
UnixCloneReturn ==
    /\ spc = "clone"
    /\ fpc \in {"execd", "aborted"}
    /\ spc' = SpawnAfter(splat, "clone")
    /\ childEnd' = ChildEndDropped
    /\ UNCHANGED <<splat, hs, hlist, cloexec0, cloexec, idx, enabled, cpRes,
                   procCreated, childFds, sent, sres, cfd, localEnd>>
    /\ UNCHANGED <<forkVars, pipeVars>>
    /\ UNCHANGED notSpawn

\* some process holds the reading end of the stream `local` writes to
ReaderOpen == childEnd \/ cproc = "running"

\* free space in the buffer of that stream
Room == BufCap - (Len(sent) - cread)

Min(a, b) == IF a < b THEN a ELSE b

\* the part of `data` the pending write has still to put on the stream
Unwritten(data) == SubSeq(data, swr + 1, Len(data))

\* one write of local.send: it fails when nobody holds the reading end, moves
\* as many bytes as the buffer takes, and waits while the buffer is full
WriteSome(data) ==
    /\ Unwritten(data) = <<>> \/ (ReaderOpen /\ Room > 0)
    /\ sent' = sent \o SubSeq(Unwritten(data), 1, Min(Room, Len(Unwritten(data))))

\* that write has put the last byte of `data` on the stream
WriteDone(data) == Min(Room, Len(Unwritten(data))) = Len(Unwritten(data))

\* spawn: local.send(..): the serialization and the write of the length prefix
SpawnSendLen ==
    /\ spc = "send_len"
    /\ \/ /\ WriteSome(ToNeBytes(Len(hs)))
          /\ IF WriteDone(ToNeBytes(Len(hs)))
             THEN /\ SpawnGo("send_len")
                  /\ swr' = 0
             ELSE /\ swr' = swr + Min(Room, Len(Unwritten(ToNeBytes(Len(hs)))))
                  /\ UNCHANGED <<spc, sres, endVars>>
       \/ /\ swr = 0 \/ ~ReaderOpen
          /\ Unwritten(ToNeBytes(Len(hs))) # <<>>
          /\ SpawnFail("err_send")
          /\ UNCHANGED <<sent, swr>>
    /\ UNCHANGED <<splat, hs, hlist, cloexec0, cloexec, idx, enabled, cpRes,
                   procCreated, childFds, cfd, cproc, cread>>
    /\ UNCHANGED forkVars
    /\ UNCHANGED notSpawn

\* spawn: local.send(..): the write of the payload, then Ok(Child::new(..));
\* `child` is dropped, `local` lives on in the Child
SpawnSendBody ==
    /\ spc = "send_body"
    /\ \/ /\ WriteSome(hs)
          /\ IF WriteDone(hs)
             THEN /\ spc' = SpawnAfter(splat, "send_body")
                  /\ swr' = 0
                  /\ IF SpawnAfter(splat, "send_body") = "done"
                     THEN /\ sres' = "ok"
                          /\ childEnd' = ChildEndDropped
                          /\ localEnd' = localEnd
                     ELSE UNCHANGED <<sres, endVars>>
             ELSE /\ swr' = swr + Min(Room, Len(Unwritten(hs)))
                  /\ UNCHANGED <<spc, sres, endVars>>
       \/ /\ ~ReaderOpen
          /\ Unwritten(hs) # <<>>
          /\ SpawnFail("err_send")
          /\ UNCHANGED <<sent, swr>>
    /\ UNCHANGED <<splat, hs, hlist, cloexec0, cloexec, idx, enabled, cpRes,
                   procCreated, childFds, cfd, cproc, cread>>
    /\ UNCHANGED forkVars
    /\ UNCHANGED notSpawn

\* the new image of the child has started
ChildStarted == cproc = "running" /\ (splat = "windows" \/ fpc = "execd")

\* the child process reads a byte of the handshake from its end
ChildReads ==
    /\ ChildStarted
    /\ cread < Len(sent)
    /\ cread' = cread + 1
    /\ UNCHANGED <<splat, hs, hlist, cloexec0, cloexec, spc, idx, enabled, cpRes,
                   procCreated, childFds, sent, sres, cfd, cproc, swr>>
    /\ UNCHANGED <<forkVars, endVars>>
    /\ UNCHANGED notSpawn

\* the child process dies (killed, crashed, exited)
ChildDies ==
    /\ ChildStarted
    /\ cproc' = "dead"
    /\ UNCHANGED <<splat, hs, hlist, cloexec0, cloexec, spc, idx, enabled, cpRes,
                   procCreated, childFds, sent, sres, cfd, cread, swr>>
    /\ UNCHANGED <<forkVars, endVars>>
    /\ UNCHANGED notSpawn

\* the steps of the thread that called spawn
SpawnParent ==
    \/ SpawnDuplex
    \/ WinPrepare
    \/ WinDisable
    \/ WinCreateProcess
    \/ WinRestore
    \/ WinCheck
    \/ UnixClone
    \/ UnixCloneReturn
    \/ SpawnSendLen
    \/ SpawnSendBody

\* the steps of the cloned child inside fork_child_main
ForkChild ==
    \/ ForkSigaction
    \/ ForkSigprocmask
    \/ ForkDisableCloexec
    \/ ForkExecv

SpawnNext ==
    \/ SpawnParent
    \/ ForkChild
    \/ ChildReads
    \/ ChildDies

----------------------------------------------------------------------------
(* One Sender<T> and its Receiver<T> *)

\* channel(): a fresh pipe / socket pair, nothing sent yet
InitChan ==
    /\ cKind \in Kinds
    /\ wire = <<>>
    /\ txOpen = TRUE
    /\ txPc = "idle"
    /\ txLeft = <<>>
    /\ txVal = <<>>
    /\ begun = <<>>
    /\ sentOk = <<>>
    /\ rxOut = <<>>

\* Sender::send(&value): the length prefix is handed to the first write
SendStart ==
    /\ txOpen
    /\ txPc = "idle"
    /\ Len(begun) < MaxSends
    /\ \E v \in ValuesOf(cKind) :
          /\ txVal' = v
          /\ txLeft' = ToNeBytes(Len(v))
          /\ begun' = Append(begun, v)
    /\ txPc' = "len"
    /\ UNCHANGED <<cKind, wire, txOpen, sentOk, rxOut>>
    /\ UNCHANGED notChan

\* Sender::send: the pending write puts its next byte on the stream; when the
\* prefix is out the payload is written, when the payload is out send returns Ok
SendWrite ==
    /\ txOpen
    /\ txPc \in {"len", "body"}
    /\ LET rest == IF txLeft = <<>> THEN <<>> ELSE Tail(txLeft)
           byte == IF txLeft = <<>> THEN <<>> ELSE <<Head(txLeft)>>
       IN  /\ wire' = wire \o byte
           /\ IF rest # <<>>
              THEN /\ txLeft' = rest
                   /\ UNCHANGED <<txPc, sentOk>>
              ELSE IF txPc = "len" /\ txVal # <<>>
                   THEN /\ txPc' = "body"
                        /\ txLeft' = txVal
                        /\ UNCHANGED sentOk
                   ELSE /\ txPc' = "idle"
                        /\ txLeft' = <<>>
                        /\ sentOk' = Append(sentOk, txVal)
    /\ UNCHANGED <<cKind, txOpen, txVal, begun, rxOut>>
    /\ UNCHANGED notChan

\* the Sender goes away: dropped between sends, its send future cancelled and
\* the endpoint closed, or its process dies, at any point of a frame
SenderDrop ==
    /\ txOpen
    /\ txOpen' = FALSE
    /\ UNCHANGED <<cKind, wire, txPc, txLeft, txVal, begun, sentOk, rxOut>>
    /\ UNCHANGED notChan

\* a read that leaves the bytes it returned in the stream
RestNothingRead(s, used) == s

\* the stream after self.fd.read(..) took `used` bytes out of it
Rest(s, used) == SubSeq(s, used + 1, Len(s))

\* Receiver::recv() runs to its result
RecvCall ==
    /\ Len(rxOut) < MaxRecvs
    /\ LET res == WinRecv(cKind, wire, ~txOpen)
       IN  /\ res.r # "block"
           /\ rxOut' = Append(rxOut, res)
           /\ wire' = Rest(wire, res.used)
    /\ UNCHANGED <<cKind, txOpen, txPc, txLeft, txVal, begun, sentOk>>
    /\ UNCHANGED notChan

ChanNext ==
    \/ SendStart
    \/ SendWrite
    \/ SenderDrop
    \/ RecvCall

----------------------------------------------------------------------------
(* Duplex::request *)

ReqPending == [k |-> "pending", v |-> <<>>, err |-> ""]
ReqOk(v) == [k |-> "ok", v |-> v, err |-> ""]
ReqErr(e) == [k |-> "err", v |-> <<>>, err |-> e]

\* a request that takes Ok(None) for an answer
RequestResultNoneOk(res) ==
    IF res.r = "err" THEN ReqErr("recv") ELSE ReqOk(res.v)

\* request: self.recv().await?.ok_or_else(|| Error::new(UnexpectedEof, ..))
RequestResult(res) ==
    IF res.r = "some" THEN ReqOk(res.v)
    ELSE IF res.r = "none" THEN ReqErr("no_response")
    ELSE ReqErr("recv")

\* a Duplex whose peer has not answered and request not yet called
InitReq ==
    /\ qpc = "idle"
    /\ qval = <<>>
    /\ qsent = <<>>
    /\ qsend = "pending"
    /\ qres = ReqPending
    /\ peerRx = TRUE

\* request(&value) is called
ReqCall ==
    /\ qpc = "idle"
    /\ \E v \in ValuesOf("obj") : qval' = v
    /\ qpc' = "send_len"
    /\ UNCHANGED <<qsent, qsend, qres, peerRx>>
    /\ UNCHANGED chanVars
    /\ UNCHANGED notReq

\* request: self.send(value).await?, the write of the length prefix; the
\* write fails when the peer has closed its receiving end
ReqSendLen ==
    /\ qpc = "send_len"
    /\ IF peerRx
       THEN /\ qsent' = qsent \o ToNeBytes(Len(qval))
            /\ qpc' = "send_body"
            /\ UNCHANGED <<qsend, qres>>
       ELSE /\ qsend' = "err"
            /\ qres' = ReqErr("send")
            /\ qpc' = "done"
            /\ UNCHANGED qsent
    /\ UNCHANGED <<qval, peerRx>>
    /\ UNCHANGED chanVars
    /\ UNCHANGED notReq

\* request: self.send(value).await?, the write of the payload
ReqSendBody ==
    /\ qpc = "send_body"
    /\ IF peerRx
       THEN /\ qsent' = qsent \o qval
            /\ qsend' = "ok"
            /\ qpc' = "recv"
            /\ UNCHANGED qres
       ELSE /\ qsend' = "err"
            /\ qres' = ReqErr("send")
            /\ qpc' = "done"
            /\ UNCHANGED qsent
    /\ UNCHANGED <<qval, peerRx>>
    /\ UNCHANGED chanVars
    /\ UNCHANGED notReq

\* request: self.recv().await? and the mapping of its result
ReqRecv ==
    /\ qpc = "recv"
    /\ LET res == WinRecv(cKind, wire, ~txOpen)
       IN  /\ res.r # "block"
           /\ rxOut' = Append(rxOut, res)
           /\ wire' = Rest(wire, res.used)
           /\ qres' = RequestResult(res)
    /\ qpc' = "done"
    /\ UNCHANGED <<qval, qsent, qsend, peerRx>>
    /\ UNCHANGED <<cKind, txOpen, txPc, txLeft, txVal, begun, sentOk>>
    /\ UNCHANGED notReq

\* the peer drops the receiving end of our sender (or its process dies)
PeerRxDrop ==
    /\ peerRx
    /\ peerRx' = FALSE
    /\ UNCHANGED <<qpc, qval, qsent, qsend, qres>>
    /\ UNCHANGED chanVars
    /\ UNCHANGED notReq

ReqNext ==
    \/ ReqCall
    \/ ReqSendLen
    \/ ReqSendBody
    \/ ReqRecv
    \/ PeerRxDrop
    \/ SendStart
    \/ SendWrite
    \/ SenderDrop

----------------------------------------------------------------------------
(* RelocatablePtr *)

\* number of values of a usize
UsizeMod == Pow(256, WordSize)

\* the addresses tried: the lowest and the highest of the address space
Addrs == (0..(AddrSpan - 1)) \cup ((UsizeMod - AddrSpan)..(UsizeMod - 1))

\* a subtraction that stops at zero
SaturatingSub(a, b) == IF a < b THEN 0 ELSE a - b

\* usize::wrapping_sub
WrappingSub(a, b) == (a - b + UsizeMod) % UsizeMod

\* an addition that stops at usize::MAX
SaturatingAdd(a, b) == IF a + b >= UsizeMod THEN UsizeMod - 1 ELSE a + b

\* usize::wrapping_add
WrappingAdd(a, b) == (a + b) % UsizeMod

\* (&raw const BASE_ADDRESS).addr() in the process that evaluates it
BaseAddress(where) == IF where = "same" THEN anchorS ELSE anchorR

InitPtr ==
    /\ anchorS \in Addrs
    /\ anchorR \in Addrs
    /\ ptr \in Addrs
    /\ offBytes = <<>>
    /\ outIn = "none"
    /\ outPtr = 0

\* serialize_self_non_trivial: the offset from the anchor, written as a usize
PtrSerialize ==
    /\ offBytes = <<>>
    /\ offBytes' = ToNeBytes(WrappingSub(ptr, BaseAddress("same")))
    /\ UNCHANGED <<anchorS, anchorR, ptr, outIn, outPtr>>
    /\ UNCHANGED notPtr

\* deserialize_self_non_trivial, in the same process or in another process
\* that loaded the image somewhere else
PtrDeserialize ==
    /\ offBytes # <<>>
    /\ outIn = "none"
    /\ \E where \in {"same", "peer"} :
          /\ outIn' = where
          /\ outPtr' = WrappingAdd(BaseAddress(where), FromNeBytes(offBytes))
    /\ UNCHANGED <<anchorS, anchorR, ptr, offBytes>>
    /\ UNCHANGED notPtr

PtrNext ==
    \/ PtrSerialize
    \/ PtrDeserialize

----------------------------------------------------------------------------
(* duplex() *)

Sides == {"ours", "theirs"}
Other(side) == IF side = "ours" THEN "theirs" ELSE "ours"

\* the two streams: "a" carries what is written on tx_a (windows) or on the
\* first socket of the pair (unix), "b" what is written on tx_b or on the
\* second socket
Streams == {"a", "b"}

\* a duplex whose first side reads the stream it writes
DuplexEndsUncrossed(plat, side) ==
    IF side = "ours" THEN [sender |-> "a", receiver |-> "a"]
    ELSE [sender |-> "b", receiver |-> "b"]

\* duplex(): the stream each side writes to and the stream it reads from.
\* windows: ours = {tx_a, rx_b}, theirs = {tx_b, rx_a}; unix: each side
\* owns one socket of the pair, and a socket reads what the other one wrote
DuplexEnds(plat, side) ==
    IF side = "ours" THEN [sender |-> "a", receiver |-> "b"]
    ELSE [sender |-> "b", receiver |-> "a"]

\* duplex()
InitDup ==
    /\ dplat \in Platforms
    /\ dwire = [c \in Streams |-> <<>>]
    /\ dsent = [s \in Sides |-> <<>>]
    /\ drecv = [s \in Sides |-> <<>>]

\* Duplex::send on one side
DuplexSend(side) ==
    /\ Len(dsent[side]) < MaxSends
    /\ \E v \in ValuesOf("obj") :
          /\ dwire' = [dwire EXCEPT ![DuplexEnds(dplat, side).sender] = @ \o Frame(v)]
          /\ dsent' = [dsent EXCEPT ![side] = Append(@, v)]
    /\ UNCHANGED <<dplat, drecv>>
    /\ UNCHANGED notDup

\* Duplex::recv on one side, when a frame is there
DuplexRecv(side) ==
    /\ LET ch == DuplexEnds(dplat, side).receiver
           res == Recv(dplat, "obj", dwire[ch], FALSE)
       IN  /\ res.r = "some"
           /\ drecv' = [drecv EXCEPT ![side] = Append(@, res.v)]
           /\ dwire' = [dwire EXCEPT ![ch] = Rest(@, res.used)]
    /\ UNCHANGED <<dplat, dsent>>
    /\ UNCHANGED notDup

DupNext ==
    \/ \E side \in Sides : DuplexSend(side)
    \/ \E side \in Sides : DuplexRecv(side)

----------------------------------------------------------------------------
(* Specifications *)

\* no duplex under observation
IdleDup ==
    /\ dplat = "unix"
    /\ dwire = [c \in Streams |-> <<>>]
    /\ dsent = [s \in Sides |-> <<>>]
    /\ drecv = [s \in Sides |-> <<>>]

\* no request under observation
IdleReq ==
    /\ qpc = "done"
    /\ qval = <<>>
    /\ qsent = <<>>
    /\ qsend = "pending"
    /\ qres = ReqPending
    /\ peerRx = FALSE

\* no pointer under observation
IdlePtr ==
    /\ anchorS = 0
    /\ anchorR = 0
    /\ ptr = 0
    /\ offBytes = <<>>
    /\ outIn = "done"
    /\ outPtr = 0

\* no channel under observation
IdleChan ==
    /\ cKind = "unit"
    /\ wire = <<>>
    /\ txOpen = FALSE
    /\ txPc = "idle"
    /\ txLeft = <<>>
    /\ txVal = <<>>
    /\ begun = <<>>
    /\ sentOk = <<>>
    /\ rxOut = <<>>

\* no spawn in progress
IdleSpawn ==
    /\ splat = "unix"
    /\ hs = <<>>
    /\ hlist = <<>>
    /\ cloexec0 = [h \in Handles |-> TRUE]
    /\ cloexec = cloexec0
    /\ spc = "done"
    /\ idx = 1
    /\ enabled = <<>>
    /\ cpRes = "ok"
    /\ procCreated = TRUE
    /\ childFds = cloexec0
    /\ sent = <<>>
    /\ sres = "ok"
    /\ cfd = 3
    /\ fpc = "none"
    /\ fsig = 1
    /\ fidx = 1
    /\ flog = <<>>
    /\ fargv = <<>>
    /\ cproc = "none"
    /\ cread = 0
    /\ swr = 0
    /\ childEnd = FALSE
    /\ localEnd = FALSE

\* no Child under observation
IdleChild ==
    /\ platform = "unix"
    /\ tKind = "unit"
    /\ retVal = <<>>
    /\ proc = "running"
    /\ status = "none"
    /\ handleOpen = TRUE
    /\ out = <<>>
    /\ cw = 0
    /\ mayKill = TRUE
    /\ lock = "free"
    /\ jpc = "done"
    /\ jrecv = "pending"
    /\ jval = None
    /\ jres = Pending
    /\ kpc = [k \in Killers |-> "done"]
    /\ kcalls = 0
    /\ klog = {}

Init == InitChild /\ IdleSpawn /\ IdleChan /\ IdleReq /\ IdlePtr /\ IdleDup

\* a Child with its join and kill threads
Spec == Init /\ [][ChildNext]_vars

SpawnInit == InitSpawn /\ IdleChild /\ IdleChan /\ IdleReq /\ IdlePtr /\ IdleDup

\* one call of spawn
SpecSpawn == SpawnInit /\ [][SpawnNext]_vars

\* one call of spawn whose thread keeps running: a step of spawn that can be
\* taken is taken; the child is free to stop reading or to die
SpecSpawnFair == SpawnInit /\ [][SpawnNext]_vars /\ WF_vars(SpawnParent)

ChanInit == InitChan /\ IdleChild /\ IdleSpawn /\ IdleReq /\ IdlePtr /\ IdleDup

\* a Sender, its Receiver and the stream between them
SpecChan == ChanInit /\ [][ChanNext]_vars

ReqInit == InitReq /\ InitChan /\ IdleChild /\ IdleSpawn /\ IdlePtr /\ IdleDup

\* one call of request and the peer that answers it
SpecReq == ReqInit /\ [][ReqNext]_vars

PtrInit == InitPtr /\ IdleChild /\ IdleSpawn /\ IdleChan /\ IdleReq /\ IdleDup

\* one RelocatablePtr, serialized and deserialized
SpecPtr == PtrInit /\ [][PtrNext]_vars

DupInit ==
    InitDup /\ IdleChild /\ IdleSpawn /\ IdleChan /\ IdleReq /\ IdlePtr

\* the two sides of one duplex, each sending and receiving
SpecDup == DupInit /\ [][DupNext]_vars

TypeOK ==
    /\ proc \in {"running", "exited", "reaped"}
    /\ status \in {"none", "exit0", "exit7", "sig9", "exit1"}
    /\ jpc \in {"idle", "recv", "lock", "wait", "done"}
    /\ lock \in {"free", "join", "kill"}
----------------------------------------------------------------------------
(* Claims about Child::join and KillHandle::kill *)

RecvFailed == jrecv \in {"eof", "io"}
OkKills == {e \in klog : e.res = "ok"}
\* kills that returned Ok before join was called, while the child ran and
\* had not sent its value
EarlyKills ==
    {e \in OkKills : e.proc = "running" /\ e.cw < Len(Frame(retVal)) /\ e.jpc = "idle"}

\* C1: join and kill on one child never both succeed.
C1_JoinKillNeverBothSucceed ==
    ~(jres.k = "ok" /\ OkKills # {})

\* C2: once join has cleared may_kill, every kill call is refused with
\* "already joined" and sends no signal, whatever join returns later.
C2_KillRefusedAfterClear ==
    /\ \A e \in klog : ~e.flag => (e.res = "joined" /\ ~e.sig)
    /\ \A k \in Killers : kpc[k] = "sig" => mayKill

C2_Witness ==
    /\ jpc = "done"
    /\ \E e \in klog : ~e.flag /\ e.res = "joined"

\* C3: no signal is sent to the process id after join's wait has reaped it.
C3_NoSignalAfterReap ==
    /\ \A e \in klog : e.sig => e.proc # "reaped"
    /\ \A k \in Killers : kpc[k] = "sig" => proc # "reaped"

C3_Witness ==
    \E e \in klog : e.proc = "reaped" /\ ~e.sig

NonZero == {"exit7", "sig9", "exit1"}
\* join returned Ok(v) only for status 0 and the value the child sent
OkOnlyForZeroAndValue ==
    jres.k = "ok" =>
        /\ status = "exit0"
        /\ jres.v = retVal
        /\ tKind # "unit" => (jrecv = "some" /\ cw = Len(Frame(retVal)))

C17_ClearedAfterRecvBeforeWait ==
    /\ ~mayKill => (jrecv \in {"some", "none"} /\ jpc \in {"wait", "done"})
    /\ jpc = "wait" => (~mayKill /\ lock = "join")
    /\ proc = "reaped" => ~mayKill

C17_Witness ==
    /\ jpc = "wait"
    /\ proc = "running"
    /\ ~mayKill
    /\ lock = "join"
    /\ jrecv = "some"

\* C23: may_kill is true when the Child is created, is written only by
\* join and only from true to false, and no kill call changes it, whether
\* it returns Ok or Err: kill can succeed several times before join clears
\* the flag, and the flag never becomes true again.
C23_FlagWrittenOnlyByJoin ==
    /\ [](jpc \in {"idle", "recv", "lock"} => mayKill)
    /\ [][(mayKill' # mayKill) =>
             (mayKill /\ ~mayKill' /\ jpc = "lock" /\ jpc' = "wait")]_vars
    /\ [][(klog' # klog \/ kpc' # kpc) => mayKill' = mayKill]_vars

C23_Witness ==
    /\ mayKill
    /\ kcalls = MaxKillCalls
    /\ \A k \in Killers : kpc[k] = "idle"
    /\ klog # {}
    /\ \A e \in klog : e.res = "ok" /\ e.proc = "exited"
    /\ \E e \in klog : e.jpc = "lock"
    /\ jpc = "lock"

\* C24: when the recv inside join returns an error, join returns that error
\* at once for every T, unit included: may_kill stays true, the process is
\* not waited on, and a kill called afterwards is not refused but signals
\* the process.
C24_RecvErrorReturnsEarly ==
    RecvFailed =>
        /\ jpc = "done"
        /\ jres.k = "err" /\ jres.err \in {"recv_eof", "recv_io"}
        /\ mayKill
        /\ proc # "reaped"
        /\ lock # "join"
        /\ \A e \in klog : e.jpc = "done" => (e.flag /\ e.sig /\ e.res # "joined")

C24_Witness ==
    /\ RecvFailed
    /\ tKind = "unit"
    /\ jres.k = "err"
    /\ \E e \in klog : e.jpc = "done" /\ e.sig /\ e.res = "ok" /\ e.proc = "running"

\* C18: once join has cleared may_kill, a kill call gets through its
\* critical section without waiting for the child to exit: while the child
\* still runs after sending its value, the mutex is not kept by join.
C18_KillNotBlockedByWait ==
    (~mayKill /\ proc = "running") => lock # "join"
----------------------------------------------------------------------------
(* Claims about spawn *)

\* C8: spawn creates the child process first, then sends exactly one frame
\* (the handshake) on `local`, and returns a Child only after that send
\* succeeded; the first frame the child can read is the handshake.
C8_HandshakeAfterCreate ==
    /\ sent # <<>> => procCreated
    /\ sres = "ok" =>
          /\ procCreated
          /\ sent = Frame(hs)
          /\ LET first == Recv(splat, "obj", sent, FALSE)
             IN  first.r = "some" /\ first.v = hs /\ first.used = Len(sent)

C8_Witness ==
    /\ sres = "ok"
    /\ hs # <<>>
    /\ sent = Frame(hs)

\* C9: after spawn returns, with success or with any error, every handle of
\* the parent that had cloexec set before the call still has it set.
C9_CloexecRestored ==
    sres # "pending" => \A h \in UserHandles : cloexec0[h] => cloexec[h]

\* handles of enabled_handles that are still inheritable
NotRestored == {i \in 1..Len(enabled) : ~cloexec[enabled[i]]}

\* C19: when re-enabling cloexec fails after CreateProcessW was called,
\* _spawn_child returns the restoration error and no process handle, whether
\* CreateProcessW succeeded or failed; the error of CreateProcessW is
\* returned only when every handle was restored.
C19_RestoreErrorFirst ==
    (splat = "windows" /\ spc = "done" /\ cpRes # "none") =>
        /\ NotRestored # {} => (sres = "err_enable_cloexec" /\ sent = <<>>)
        /\ sres = "err_create_process" => (cpRes = "fail" /\ NotRestored = {})
        /\ sres = "ok" => (cpRes = "ok" /\ NotRestored = {})

C19_Witness ==
    /\ splat = "windows"
    /\ spc = "done"
    /\ cpRes = "ok"
    /\ procCreated
    /\ NotRestored # {}
    /\ sres = "err_enable_cloexec"

\* the handles of inherited_handles
InheritSet ==
    {InheritedHandles(splat, hlist)[i] : i \in 1..Len(InheritedHandles(splat, hlist))}

\* C20: on Windows _spawn_child changes the inheritance flag only of handles
\* of the inherit list that were non-inheritable before the call; a handle
\* that was inheritable stays inheritable, is not recorded for restoration
\* and is not made non-inheritable afterwards.
C20_OnlyCloexecHandlesToggled ==
    splat = "windows" =>
        /\ \A h \in Handles : ~cloexec0[h] => ~cloexec[h]
        /\ \A h \in Handles : h \notin InheritSet => cloexec[h] = cloexec0[h]
        /\ \A i \in 1..Len(enabled) :
              enabled[i] \in InheritSet /\ cloexec0[enabled[i]]

C20_Witness ==
    /\ splat = "windows"
    /\ sres = "ok"
    /\ \E h \in InheritSet : ~cloexec0[h] /\ ~cloexec[h]
    /\ \E i \in 1..Len(enabled) : enabled[i] \in UserHandles /\ cloexec[enabled[i]]

\* the sigaction calls of fork_child_main from signal i on
RECURSIVE SigResets(_)
SigResets(i) ==
    IF i >= NSig THEN <<>>
    ELSE (IF i \in {SigKill, SigStop} THEN <<>> ELSE <<Call("sigaction", i, "")>>)
         \o SigResets(i + 1)

\* everything the cloned child has to do before execv, in order
BeforeExecv ==
    SigResets(1) \o <<Call("sigprocmask", 0, "")>>
        \o [i \in 1..(Len(hlist) + 1) |->
               Call("disable_cloexec", 0, (<<"child_fd">> \o hlist)[i])]

RECURSIVE ParseDecimal(_)
\* the number a string of decimal digits denotes
ParseDecimal(str) ==
    IF str = <<>> THEN 0
    ELSE 10 * ParseDecimal(SubSeq(str, 1, Len(str) - 1))
         + (CHOOSE d \in 0..9 : Digits[d + 1] = str[Len(str)])

C22_ExecvAfterResets ==
    /\ fpc = "execv" => flog = BeforeExecv
    /\ fargv # <<>> =>
          /\ flog = BeforeExecv \o <<Call("execv", 0, "")>>
          /\ fargv = <<<<"_crossmist_">>, ToDecimalString(cfd)>>
          /\ ParseDecimal(fargv[2]) = cfd
          /\ ~childFds["child_fd"]
          /\ \A i \in 1..Len(hlist) : ~childFds[hlist[i]]

C22_Witness ==
    /\ fpc = "execd"
    /\ cfd = MaxFd
    /\ Len(hlist) = 2
    /\ hlist[1] # hlist[2]
    /\ \A h \in UserHandles : cloexec0[h]

\* C25: when the process exists and the handshake send fails, spawn returns
\* that error and no Child, `local` is dropped and the child finds the end
\* of the stream where the handshake should be; the step that returns does
\* nothing to the child process (no kill, no wait). When the process could
\* not be created no byte of a handshake is sent.
C25_SendFailureLeavesChild ==
    /\ [](sres = "err_send" =>
             (procCreated /\ ~localEnd
                 /\ Recv(splat, "obj", sent, ~localEnd).r # "some"))
    /\ [](~procCreated => sent = <<>>)
    /\ [](sres \in {"err_clone", "err_create_process"} => sent = <<>>)
    /\ [][(sres = "pending" /\ sres' # "pending") => cproc' = cproc]_vars

C25_Witness ==
    /\ sres = "err_send"
    /\ procCreated
    /\ cproc = "running"
    /\ ~localEnd

C27_SpawnReturnsWhenChildDead ==
    (cproc = "dead") ~> (sres # "pending")

----------------------------------------------------------------------------
(* Claims about frames *)

\* C10: every recv yields the entire payload of a frame, or
\* end-of-stream exactly at a frame boundary, also when the sender stops
\* part-way through a frame.
C10_WholeFrameOrBoundaryEof ==
    \A i \in 1..Len(rxOut) :
        \/ rxOut[i].r = "some" /\ i <= Len(begun) /\ rxOut[i].v = begun[i]
        \/ rxOut[i].r = "none" /\ rxOut[i].used = 0

\* C11: recv returns Ok(None) only when the stream ends with no byte of the
\* next length prefix read; a recv that met the end of the stream after it
\* read a byte of a frame, in the prefix or in the payload, returned the
\* unexpected-EOF error.
C11_NoneOnlyAtBoundary ==
    \A i \in 1..Len(rxOut) :
        /\ rxOut[i].r = "none" => rxOut[i].used = 0
        /\ (rxOut[i].r # "some" /\ rxOut[i].used > 0) => rxOut[i].r = "err"

\* C12: the values whose send returned Ok are received in send order, each
\* once and none skipped; a recv never yields a value that was not sent at
\* that position; Ok(None) comes only after all of them, the sender dropped.
C12_FifoDelivery ==
    \A i \in 1..Len(rxOut) :
        /\ i <= Len(sentOk) => (rxOut[i].r = "some" /\ rxOut[i].v = sentOk[i])
        /\ rxOut[i].r = "some" => (i <= Len(begun) /\ rxOut[i].v = begun[i])
        /\ rxOut[i].r = "none" => (~txOpen /\ i > Len(sentOk))

C12_Witness ==
    /\ Len(sentOk) = 2
    /\ sentOk[1] # sentOk[2]
    /\ Len(rxOut) = 3
    /\ rxOut[1].r = "some" /\ rxOut[2].r = "some" /\ rxOut[3].r = "none"

\* C13: request sends v, then performs one recv: a received value is
\* returned, Ok(None) becomes the unexpected-EOF error of request, and a
\* failed send is returned without any recv.
C13_RequestSendThenRecv ==
    /\ Len(rxOut) <= 1
    /\ rxOut # <<>> => (qsend = "ok" /\ qsent = Frame(qval) /\ qpc = "done")
    /\ qsend = "err" => (qpc = "done" /\ qres = ReqErr("send") /\ rxOut = <<>>)
    /\ (qpc = "done" /\ qsend = "ok") =>
          /\ Len(rxOut) = 1
          /\ rxOut[1].r = "some" => qres = ReqOk(rxOut[1].v)
          /\ rxOut[1].r = "none" => qres = ReqErr("no_response")
          /\ rxOut[1].r = "err" => qres = ReqErr("recv")

C13_Witness ==
    /\ qpc = "done"
    /\ qsend = "ok"
    /\ rxOut[1].r = "none"
    /\ qres = ReqErr("no_response")

\* bytes on the wire of one frame of a plain-old-data T
PodFrameLen == WordSize + SizeOf(cKind)

\* the i-th run of PodFrameLen bytes of the stream
PodFrameAt(i) == SubSeq(wire, (i - 1) * PodFrameLen + 1, i * PodFrameLen)

\* C16: for a plain-old-data T every send puts size_of::<usize>() +
\* size_of::<T>() bytes on the wire, a prefix equal to size_of::<T>() and
\* then the bytes of the value; recv consumes exactly that many bytes and
\* returns the value that was sent.
C16_PodFrameRoundTrip ==
    IsPod(cKind) =>
        /\ (rxOut = <<>> /\ txPc = "idle") =>
              /\ Len(wire) = Len(sentOk) * PodFrameLen
              /\ \A i \in 1..Len(sentOk) :
                    /\ FromNeBytes(SubSeq(PodFrameAt(i), 1, WordSize)) = SizeOf(cKind)
                    /\ SubSeq(PodFrameAt(i), WordSize + 1, PodFrameLen) = sentOk[i]
        /\ \A i \in 1..Len(rxOut) :
              rxOut[i].r = "some" =>
                  /\ rxOut[i].used = PodFrameLen
                  /\ i <= Len(begun) /\ rxOut[i].v = begun[i]

C16_Witness ==
    /\ cKind = "pod"
    /\ Len(sentOk) = 2
    /\ Len(rxOut) = 1
    /\ rxOut[1].r = "some" /\ rxOut[1].v = sentOk[1]
    /\ rxOut[1].used = WordSize + PodSize
    /\ wire = Frame(sentOk[2])

\* `a` is the beginning of `b`
IsPrefix(a, b) == Len(a) <= Len(b) /\ a = SubSeq(b, 1, Len(a))

\* C28: the two sides of duplex() are cross-connected: what a side's recv
\* returns are the values the other side sent, in order, and never the
\* values the side sent itself, in both directions and with one type for
\* both directions.
C28_DuplexCrossConnected ==
    \A side \in Sides :
        /\ IsPrefix(drecv[side], dsent[Other(side)])
        /\ (dsent[Other(side)] = <<>>) => (drecv[side] = <<>>)
        /\ DuplexEnds(dplat, side).sender = DuplexEnds(dplat, Other(side)).receiver

C28_Witness ==
    /\ dplat = "windows"
    /\ Len(dsent["ours"]) = MaxSends
    /\ drecv["theirs"] = dsent["ours"]
    /\ drecv["ours"] = dsent["theirs"]
    /\ drecv["ours"] # <<>>
    /\ dsent["ours"][1] # dsent["theirs"][1]

----------------------------------------------------------------------------
(* Claims about RelocatablePtr *)

\* C14: a pointer serialized and deserialized in the same process comes back
\* unchanged, for every address, also below the anchor.
C14_SameProcessRoundTrip ==
    outIn = "same" => outPtr = ptr

C14_Witness ==
    /\ outIn = "same"
    /\ ptr < anchorS
    /\ outPtr = ptr

\* C15: deserialized in a process whose anchor lies elsewhere, the pointer
\* is receiver_anchor + (sender_address - sender_anchor) modulo 2^word: it
\* has the offset from the receiver's anchor that the sender's pointer has
\* from the sender's anchor.
C15_SameImageOffset ==
    outIn = "peer" =>
        /\ outPtr = (anchorR + (ptr - anchorS) + UsizeMod) % UsizeMod
        /\ (outPtr - anchorR + UsizeMod) % UsizeMod
               = (ptr - anchorS + UsizeMod) % UsizeMod

C15_Witness ==
    /\ outIn = "peer"
    /\ anchorR > anchorS
    /\ ptr > anchorS
    /\ anchorR + (ptr - anchorS) >= UsizeMod
    /\ outPtr < anchorR
====
